---- MODULE Spec2Model ----
(***************************************************************************)
(* Fira (src/fira/web/mini-server.py): the file-tree task repository.      *)
(*                                                                         *)
(* One project directory is modelled.  A text (a file's content, a value   *)
(* of a task_data dictionary) is a sequence of tokens: a token is one      *)
(* character that the code treats specially (":", "#", "'", " ", "\n",     *)
(* "/"), the frontmatter delimiter "---", or a word without any of them.   *)
(* A Python dictionary is a function whose domain is its set of keys.      *)
(***************************************************************************)
EXTENDS Integers, Sequences, FiniteSets, TLC

\* ------------------------------------------------------------------ bounds
\* Number of clock-reading operations in one run of Spec.
MaxClock == 3
\* Number of clock-reading operations in one run of SpecBlock.
MaxBlockOps == 4
\* Number of createTask calls before the two calls of SpecRace start.
MaxRaceCreates == 2
\* Number of clock-reading operations in one run of SpecDup.
MaxDupOps == 5
\* Number of tasks that a project of SpecWip holds in progress at the start.
MaxWipTasks == 5
\* Number of clock-reading operations in one run of SpecWip.
MaxWipOps == 2
\* Number of store_cfd_snapshot calls in one run of SpecCfd.
MaxStores == 3
\* Number of clock-reading operations in one run of SpecIdem.
MaxIdemOps == 4
\* Number of createTask calls before the call of SpecMove starts.
MaxMoveCreates == 2
\* Number of clock-reading operations, and of stores, in one run of SpecIo.
MaxIoOps == 2
\* Number of createTask calls in one run of SpecFlow.
MaxFlowOps == 3

\* ------------------------------------------------------------------ texts
NL == "\n"
SP == " "
DELIM == "---"
Whitespace == {SP, NL}
Quotes == {"'", "\""}

\* Python None inside a dictionary.
NoneVal == <<"<None>">>
\* Python truthiness of a dictionary value (None and '' are falsy).
Truthy(v) == v # NoneVal /\ v # <<>>

\* x or y
OrElse(x, y) == IF Truthy(x) THEN x ELSE y

\* dict.get(key, default)
Get(d, key, default) == IF key \in DOMAIN d THEN d[key] ELSE default

EmptyDict == [k \in {} |-> <<>>]

\* c in text
Has(text, c) == \E i \in 1..Len(text) : text[i] = c

\* the least element of a non-empty set of numbers
Least(S) == CHOOSE i \in S : \A j \in S : i <= j
\* the greatest element of a non-empty set of numbers
Greatest(S) == CHOOSE i \in S : \A j \in S : j <= i

\* text.find(c) + 1, 0 when absent
IndexOf(text, c) ==
    LET at == {i \in 1..Len(text) : text[i] = c}
    IN IF at = {} THEN 0 ELSE Least(at)

\* text.lstrip(chars)
LStrip(text, chars) ==
    LET keep == {i \in 1..Len(text) : text[i] \notin chars}
    IN IF keep = {} THEN <<>> ELSE SubSeq(text, Least(keep), Len(text))

\* text.rstrip(chars)
RStrip(text, chars) ==
    LET keep == {i \in 1..Len(text) : text[i] \notin chars}
    IN IF keep = {} THEN <<>> ELSE SubSeq(text, 1, Greatest(keep))

\* text.strip(chars)
Strip(text, chars) == RStrip(LStrip(text, chars), chars)

\* text.split(sep): the list of pieces
Split(text, sep) ==
    LET at == {i \in 1..Len(text) : text[i] = sep}
        n == Cardinality(at)
        pos(k) == CHOOSE i \in at : Cardinality({j \in at : j < i}) = k - 1
    IN [k \in 1..(n + 1) |->
            SubSeq(text, IF k = 1 THEN 1 ELSE pos(k - 1) + 1,
                         IF k = n + 1 THEN Len(text) ELSE pos(k) - 1)] \o <<>>

\* pathlib: base / text, as the list of path segments below the project
Segs(text) == SelectSeq(Split(text, "/"), LAMBDA s : s # <<>>)

\* A path segment is one token; a segment of several tokens keeps its first.
RECURSIVE Flatten(_)
Flatten(segs) == IF segs = <<>> THEN <<>> ELSE <<Head(segs)[1]>> \o Flatten(Tail(segs))

\* str.lower() on the tokens that occur as values of 'blocked'
Lower(text) ==
    [i \in 1..Len(text) |->
        IF text[i] = "True" THEN "true"
        ELSE IF text[i] = "False" THEN "false" ELSE text[i]]

\* ------------------------------------------------------------------ time
Minutes == <<"01", "02", "03", "04", "05", "06", "07", "08", "09">>

\* datetime.now().isoformat() at clock value n
IsoNow(n) == <<"2026-11-05", "T08", ":", Minutes[n]>>
\* datetime.now(timezone.utc).isoformat()
IsoNowUtc(n) == IsoNow(n) \o <<"+00", ":", "00">>
\* datetime.now().isoformat()[:10]
Today(n) == SubSeq(IsoNow(n), 1, 1)

\* ------------------------------------------------------------------ codec
\* parse_task_file: the frontmatter block of a file's content
YamlOf(content) ==
    IF content # <<>> /\ Head(content) = DELIM
    THEN LET rest == Tail(content)
             j == IndexOf(rest, DELIM)
         IN IF j = 0 THEN <<>> ELSE Strip(SubSeq(rest, 1, j - 1), Whitespace)
    ELSE <<>>

\* parse_task_file: the markdown body of a file's content
BodyOf(content) ==
    IF content # <<>> /\ Head(content) = DELIM
    THEN LET rest == Tail(content)
             j == IndexOf(rest, DELIM)
         IN IF j = 0 THEN content
            ELSE Strip(SubSeq(rest, j + 1, Len(rest)), Whitespace)
    ELSE content

\* parse_task_file: the key of a frontmatter line that holds a ':'
LineKey(line) == Strip(SubSeq(line, 1, IndexOf(line, ":") - 1), Whitespace)

\* parse_task_file: the value of a frontmatter line that holds a ':'
LineValue(line) ==
    Strip(Strip(SubSeq(line, IndexOf(line, ":") + 1, Len(line)), Whitespace), Quotes)

\* parse_task_file: the metadata dictionary, keyed by the key's text; a
\* later line with the same key replaces an earlier one
ParseLines(lines) ==
    LET stripped == [i \in 1..Len(lines) |-> Strip(lines[i], Whitespace)] \o <<>>
        pairs == {i \in 1..Len(lines) : Has(stripped[i], ":")}
    IN [key \in {LineKey(stripped[i]) : i \in pairs} |->
            LineValue(stripped[Greatest({i \in pairs : LineKey(stripped[i]) = key})])]
       @@ EmptyDict

Metadata(content) ==
    LET yaml == YamlOf(content) IN
    IF yaml = <<>> THEN EmptyDict ELSE ParseLines(Split(yaml, NL))

\* metadata.get(key, default)
MGet(md, key, default) == Get(md, <<key>>, default)

\* ------------------------------------------------------------------ tasks
\* Python bool, as the text that f"{value}" writes
PyBool(b) == IF b THEN <<"True">> ELSE <<"False">>

\* task_id.replace('-', ' ').title()
IdTitle(id) == IF id = "t1" THEN <<"T1">> ELSE IF id = "t2" THEN <<"T2">> ELSE <<id>>

\* parse_task_file: the task dictionary built from a file.  The computed
\* numbers (cycle_time_days, age_days, blocked_time_*) and file_path are
\* keys that no operation reads back; they are left out.
ParseTask(id, content) ==
    LET md == Metadata(content)
        blocked == Lower(MGet(md, "blocked", <<"false">>)) \in {<<"true">>, <<"yes">>, <<"1">>}
        unblocked_at == MGet(md, "unblocked_at", <<>>)
    IN  [ id |-> <<id>>,
          title |-> MGet(md, "title", IdTitle(id)),
          content |-> BodyOf(content),
          fullContent |-> content,
          timeEstimate |-> MGet(md, "estimate", <<"0h">>),
          timeSpent |-> MGet(md, "spent_time", <<"0h">>),
          priority |-> MGet(md, "priority", <<"medium">>),
          developer |-> MGet(md, "developer", NoneVal),
          assignee |-> MGet(md, "developer", NoneVal),
          status |-> MGet(md, "status", <<"backlog">>),
          created |-> MGet(md, "created", <<>>),
          created_at |-> MGet(md, "created_at", MGet(md, "created", <<>>)),
          started_at |-> MGet(md, "started_at", <<>>),
          done_at |-> MGet(md, "done_at", <<>>),
          blocked |-> PyBool(blocked),
          blocked_at |-> MGet(md, "blocked_at", <<>>),
          blocked_reason |-> MGet(md, "blocked_reason", <<>>),
          unblocked_at |-> unblocked_at,
          is_currently_blocked |-> PyBool(blocked /\ ~Truthy(unblocked_at)) ]

\* {k: v for k, v in frontmatter.items() if v is not None}
DropNone(pairs) == SelectSeq(pairs, LAMBDA kv : kv[2] # NoneVal)

\* create_task_file.simple_yaml_dump: no quoting
RECURSIVE CreateYamlDump(_)
CreateYamlDump(pairs) ==
    IF pairs = <<>> THEN <<>>
    ELSE LET line == <<pairs[1][1], ":", SP>> \o pairs[1][2]
         IN IF Len(pairs) = 1 THEN line
            ELSE line \o <<NL>> \o CreateYamlDump(Tail(pairs))

\* update_task_file.simple_yaml_dump: a value with '\n', ':' or '#' is quoted
NeedsQuote(value) == Has(value, NL) \/ Has(value, ":") \/ Has(value, "#")

RECURSIVE UpdateYamlDump(_)
UpdateYamlDump(pairs) ==
    IF pairs = <<>> THEN <<>>
    ELSE LET value == pairs[1][2]
             line == <<pairs[1][1], ":", SP>> \o
                     (IF NeedsQuote(value) THEN <<"'">> \o value \o <<"'">> ELSE value)
         IN IF Len(pairs) = 1 THEN line
            ELSE line \o <<NL>> \o UpdateYamlDump(Tail(pairs))

\* f"---\n{yaml_content}\n---\n\n{markdown_content}"
FileText(yaml, markdown) == <<DELIM, NL>> \o yaml \o <<NL, DELIM, NL, NL>> \o markdown

\* ------------------------------------------------------------------ file tree
\* A directory is the list of its path segments below the project
\* directory; a file is a directory and a task ID (the file <id>.md).
File(dir, id) == [dir |-> dir, id |-> id]
NoFile == [dir |-> <<>>, id |-> ""]

\* the files named <id>.md
FilesOf(fsys, id) == {f \in DOMAIN fsys : f.id = id}

\* Path.mkdir(parents=True, exist_ok=True)
MkdirP(ds, dir) == ds \cup {SubSeq(dir, 1, k) : k \in 1..Len(dir)}

\* a write that stores nothing
WriteNothing(fsys, f, content) == fsys

\* Path.write_text
WriteFile(fsys, f, content) == [g \in DOMAIN fsys \cup {f} |-> IF g = f THEN content ELSE fsys[g]]

\* Path.unlink
Unlink(fsys, f) == [g \in DOMAIN fsys \ {f} |-> fsys[g]]

\* create_project: the columns and the developer folder made in each
ProjectColumns == <<"backlog", "inprogress", "review", "done", "testing">>
DefaultDev == "default-dev"

SkeletonDirs ==
    {<<ProjectColumns[i]>> : i \in 1..Len(ProjectColumns)} \cup
    {<<ProjectColumns[i], DefaultDev>> : i \in 1..Len(ProjectColumns)}

\* f"# {description}\n"
ReadmeText(description) == <<"#", SP>> \o description \o <<NL>>
NoReadme == <<"<absent>">>

VARIABLES
    exists,     \* the project directory exists
    dirs,       \* the directories below it
    fs,         \* the task files: file -> content
    readme,     \* content of README.md
    now,        \* the clock
    prev,       \* fs before the last operation
    last,       \* the last operation: its name, input and result, and the
                \* file operation that raised in it
    race,       \* the calls in progress, step by step
    wip,        \* the WIP configuration and the last check_wip_limit result
    cfd,        \* cfd-data.json: the project's history, and the last store
    codec       \* a frontmatter and a body, written and parsed back

vars == <<exists, dirs, fs, readme, now, prev, last, race, wip, cfd, codec>>

NoFiles == [f \in {} |-> <<>>]

\* no concurrent calls
NoRace == [mode |-> "none"]
\* no WIP configuration in use, no history file, no text under conversion
NoWip == [mode |-> "none"]
NoCfd == [mode |-> "none"]
NoCodec == [mode |-> "none"]

InitFiles ==
    /\ exists = FALSE
    /\ dirs = {}
    /\ fs = NoFiles
    /\ readme = NoReadme
    /\ now = 1
    /\ prev = NoFiles
    /\ last = [op |-> "init", id |-> "", ok |-> TRUE, td |-> EmptyDict,
               found |-> NoFile, cur |-> NoFile, new |-> NoFile, reason |-> <<>>,
               rep |-> FALSE, first |-> NoFile, fault |-> "none"]

\* the parts of the state that only some specifications use
Aside == wip = NoWip /\ cfd = NoCfd /\ codec = NoCodec

Init == InitFiles /\ race = NoRace /\ Aside

\* ------------------------------------------------------------------ locate
StatusFolders == <<"backlog", "progress", "inprogress", "review", "testing", "done">>
\* the folders that do_DELETE and the block/unblock handlers search
HandlerFolders == <<"backlog", "progress", "review", "testing", "done">>

InList(text, list) == \E i \in 1..Len(list) : text = <<list[i]>>

\* task_id in str(task_file.name), for the file <fid>.md
NameHas(id, fid) == id = fid

\* update_task_file: "task_id in file_content or task_id in str(task_file.name)"
Verified(fsys, f, id) == Has(fsys[f], id) \/ NameHas(id, f.id)

\* The identity check of a search: update_task_file verifies the file,
\* the handlers' searches go by the file name only.
Passes(fsys, f, id, verify) == IF verify THEN Verified(fsys, f, id) ELSE TRUE

\* The files <id>.md that the search of one status folder can return:
\* the direct file when it passes, else any developer-subfolder file that
\* passes (iterdir() fixes no order).
InFolder(fsys, ds, folder, id, verify) ==
    IF <<folder>> \notin ds THEN {}
    ELSE IF File(<<folder>>, id) \in DOMAIN fsys /\ Passes(fsys, File(<<folder>>, id), id, verify)
         THEN {File(<<folder>>, id)}
         ELSE {f \in DOMAIN fsys : /\ f.id = id
                                   /\ Len(f.dir) = 2
                                   /\ f.dir[1] = folder
                                   /\ f.dir \in ds
                                   /\ Passes(fsys, f, id, verify)}

\* The first folder of the list, in order, whose search returns a file.
RECURSIVE FirstMatch(_, _, _, _, _)
FirstMatch(fsys, ds, folders, id, verify) ==
    IF folders = <<>> THEN {}
    ELSE LET here == InFolder(fsys, ds, Head(folders), id, verify)
         IN IF here # {} THEN here ELSE FirstMatch(fsys, ds, Tail(folders), id, verify)

\* update_task_file: "Find current task file location"
UpdateLocate(fsys, ds, id) == FirstMatch(fsys, ds, StatusFolders, id, TRUE)

\* do_DELETE and do_POST (block, unblock): the search by file name only
HandlerLocate(fsys, ds, id) == FirstMatch(fsys, ds, HandlerFolders, id, FALSE)

\* current_developer of a located file
DevOf(f) == IF Len(f.dir) = 2 THEN <<f.dir[2]>> ELSE NoneVal

\* assignee.startswith('dev-') or assignee.startswith('tech-')
IsDevHandle(text) == text # <<>> /\ text[1] \in {"dev-a", "dev-b", "tech-a"}

\* ------------------------------------------------------------------ update
\* update_task_file: new_developer
NewDeveloper(td, cur) ==
    LET given == Get(td, "developer", NoneVal)
        assignee == Get(td, "assignee", NoneVal)
    IN IF ~Truthy(given) /\ Truthy(DevOf(cur)) THEN DevOf(cur)
       ELSE IF ~Truthy(given)
            THEN IF Truthy(assignee) /\ IsDevHandle(assignee) THEN assignee ELSE given
            ELSE given

\* update_task_file: new_status
NewStatus(td) == Get(td, "status", Get(td, "column", <<"backlog">>))

\* a new_folder_path that never descends into a developer subfolder
NewDirFlat(td, cur) == Flatten(Segs(NewStatus(td)))

\* update_task_file: new_folder_path
NewDir(td, cur) ==
    LET new_status == NewStatus(td)
        new_developer == NewDeveloper(td, cur)
    IN Flatten(Segs(new_status)) \o
       (IF Truthy(new_developer) /\ InList(new_status, StatusFolders)
        THEN Flatten(Segs(new_developer)) ELSE <<>>)

\* update_task_file: started_at written to the file
StartedAt(td, n) ==
    LET started_at == Get(td, "started_at", NoneVal)
    IN IF NewStatus(td) \in {<<"progress">>, <<"inprogress">>} /\ ~Truthy(started_at)
       THEN IsoNow(n) ELSE started_at

\* update_task_file: done_at written to the file
DoneAt(td, n) ==
    LET done_at == Get(td, "done_at", NoneVal)
    IN IF NewStatus(td) = <<"done">> /\ ~Truthy(done_at) THEN IsoNow(n) ELSE done_at

\* update_task_file: the frontmatter dictionary, in insertion order
UpdateFrontmatter(td, n) ==
    << <<"title", Get(td, "title", <<>>)>>,
       <<"estimate", Get(td, "timeEstimate", <<"0h">>)>>,
       <<"spent_time", Get(td, "timeSpent", <<"0h">>)>>,
       <<"priority", Get(td, "priority", <<"medium">>)>>,
       <<"developer", Get(td, "developer", NoneVal)>>,
       <<"status", NewStatus(td)>>,
       <<"created", Get(td, "created", Today(n))>>,
       <<"created_at", OrElse(Get(td, "created_at", NoneVal), Get(td, "created", NoneVal))>>,
       <<"started_at", StartedAt(td, n)>>,
       <<"done_at", DoneAt(td, n)>>,
       <<"blocked", Get(td, "blocked", PyBool(FALSE))>>,
       <<"blocked_at", Get(td, "blocked_at", NoneVal)>>,
       <<"blocked_reason", Get(td, "blocked_reason", NoneVal)>>,
       <<"unblocked_at", Get(td, "unblocked_at", NoneVal)>> >>

\* update_task_file: file_content
UpdateContent(td, n) ==
    FileText(UpdateYamlDump(DropNone(UpdateFrontmatter(td, n))),
             Get(td, "content", Get(td, "fullContent", <<>>)))

\* update_task_file: the destination check ("would overwrite a different
\* task"): TRUE when the update aborts
DestinationAbort(fsys, new, cur, id) ==
    /\ new \in DOMAIN fsys
    /\ new # cur
    /\ ~Has(fsys[new], id)
    /\ ~NameHas(id, new.id)

\* update_task_file: the check before the old file is removed: TRUE when
\* the update aborts
SafetyAbort(fsys, cur, id) == ~Has(fsys[cur], id) /\ ~NameHas(id, cur.id)

\* a move that leaves the old file in place
RemoveOldKeep(fsys, cur, new) == fsys

\* update_task_file: "If location changed, move the file": the files left
\* when the old file has been removed
RemoveOld(fsys, cur, new) ==
    IF new # cur /\ cur \in DOMAIN fsys THEN Unlink(fsys, cur) ELSE fsys

\* an update that writes the file even when the search found none
UpdateOrCreate(fsys, ds, td, n, cur) ==
    LET new == File(NewDir(td, cur), td["id"][1])
    IN [ok |-> TRUE, fs |-> WriteFile(fsys, new, UpdateContent(td, n)),
        dirs |-> MkdirP(ds, new.dir), cur |-> cur, new |-> new]

\* update_task_file, run without interruption once the project directory
\* is known to exist.  cur is the located file (NoFile: none found).
UpdateTaskFile(fsys, ds, td, n, cur) ==
    LET id == td["id"][1]
        new == File(NewDir(td, cur), id)
        ds2 == MkdirP(ds, new.dir)
    IN IF cur = NoFile
       THEN [ok |-> FALSE, fs |-> fsys, dirs |-> ds, cur |-> NoFile, new |-> NoFile]
       ELSE IF DestinationAbort(fsys, new, cur, id)
       THEN [ok |-> FALSE, fs |-> fsys, dirs |-> ds2, cur |-> cur, new |-> new]
       ELSE IF new # cur /\ cur \in DOMAIN fsys /\ SafetyAbort(fsys, cur, id)
       THEN [ok |-> FALSE, fs |-> fsys, dirs |-> ds2, cur |-> cur, new |-> new]
       ELSE [ok |-> TRUE,
             fs |-> WriteFile(RemoveOld(fsys, cur, new), new, UpdateContent(td, n)),
             dirs |-> ds2, cur |-> cur, new |-> new]

\* The located file an uninterrupted update_task_file may work on.
Located(fsys, ds, id) ==
    IF UpdateLocate(fsys, ds, id) = {} THEN {NoFile} ELSE UpdateLocate(fsys, ds, id)

\* ------------------------------------------------------------------ create
\* create_task_file: the frontmatter dictionary, in insertion order
CreateFrontmatter(td, n) ==
    LET target_folder == Get(td, "folder", <<"backlog">>)
        status == Get(td, "status", target_folder)
    IN << <<"title", Get(td, "title", <<>>)>>,
          <<"estimate", Get(td, "timeEstimate", <<"2h">>)>>,
          <<"spent_time", Get(td, "timeSpent", <<"0h">>)>>,
          <<"priority", Get(td, "priority", <<"medium">>)>>,
          <<"developer", OrElse(Get(td, "developer", NoneVal), Get(td, "assignee", NoneVal))>>,
          <<"status", status>>,
          <<"created", Today(n)>>,
          <<"created_at", IsoNow(n)>>,
          <<"started_at", IF status \in {<<"progress">>, <<"inprogress">>}
                          THEN IsoNow(n) ELSE NoneVal>> >>

\* create_task_file: file_content
CreateContent(td, n) ==
    FileText(CreateYamlDump(DropNone(CreateFrontmatter(td, n))),
             Get(td, "content", Get(td, "fullContent", <<>>)))

\* create_task_file: task_file
CreateTarget(td) == File(Flatten(Segs(Get(td, "folder", <<"backlog">>))), td["id"][1])

\* ------------------------------------------------------------------ inputs
Ids == {"t1", "t2"}
Title == <<"Fix", SP, "bug">>
Body == <<"Steps", ":", SP, "see", SP, "log">>
ProjectDescription == <<"Project", SP, "p1">>

\* task_data of POST /api/projects/<p>/tasks
CreateInputs(id) ==
    LET base == [id |-> <<id>>, title |-> Title, content |-> Body]
    IN IF id = "t2" THEN {base}
       ELSE { base,
              base @@ [folder |-> <<"progress">>],
              base @@ [folder |-> <<"backlog">>, developer |-> <<"dev-a">>],
              base @@ [folder |-> <<"inprogress", "/", "dev-a">>, status |-> <<"inprogress">>] }

\* get_project_tasks: the task as the list returns it for the file f
ListedTask(fsys, f) ==
    LET task == ParseTask(f.id, fsys[f])
        column == IF f.dir[1] = "inprogress" THEN <<"progress">> ELSE <<f.dir[1]>>
    IN IF Len(f.dir) = 2
       THEN [task EXCEPT !.developer = <<f.dir[2]>>] @@ [column |-> column]
       ELSE task @@ [column |-> column]

\* get_project_tasks: the folders in the order the list walks them
ListFolders == <<"backlog", "progress", "inprogress", "review", "testing", "done">>

\* GET /api/projects/<p>/tasks/<id>: the files whose task the handler may
\* return, the first task of the list with this ID
GetTaskFiles(fsys, ds, id) == FirstMatch(fsys, ds, ListFolders, id, FALSE)

\* task_data of PUT /api/projects/<p>/tasks/<id>: the fields a caller
\* names itself, or the listed task sent back with a new status
UpdateInputs(fsys, id) ==
    LET base == [id |-> <<id>>]
    IN { base @@ [status |-> <<"progress">>],
         base @@ [status |-> <<"review">>, developer |-> <<"dev-a">>, title |-> Title],
         base @@ [status |-> <<"done">>],
         base @@ [column |-> <<"testing">>, assignee |-> <<"dev-a">>] }
       \cup { [status |-> st] @@ ListedTask(fsys, f) :
                   st \in {<<"progress">>, <<"done">>},
                   f \in {g \in DOMAIN fsys : g.id = id /\ g.dir # <<>>} }

\* the reason of POST .../block
Reasons == { <<"waiting", SP, "on", SP, "design">>, <<"see", ":", SP, "#", "42">> }

\* ------------------------------------------------------------------ actions
Result(op, id, ok, td, found, cur, new) ==
    [op |-> op, id |-> id, ok |-> ok, td |-> td, found |-> found, cur |-> cur, new |-> new,
     reason |-> <<>>, rep |-> FALSE, first |-> NoFile, fault |-> "none"]

\* ProjectManager.create_project: the state it leaves
CreateProjectDirs(ds) == ds \cup SkeletonDirs

\* POST /api/projects: create_project
CreateProject ==
    /\ prev' = fs
    /\ IF exists
       THEN /\ UNCHANGED <<exists, dirs, readme>>
            /\ last' = Result("createProject", "", FALSE, EmptyDict, NoFile, NoFile, NoFile)
       ELSE /\ exists' = TRUE
            /\ dirs' = CreateProjectDirs(dirs)
            /\ readme' = ReadmeText(ProjectDescription)
            /\ last' = Result("createProject", "", TRUE, EmptyDict, NoFile, NoFile, NoFile)
    /\ UNCHANGED <<fs, now, race, wip, cfd, codec>>

\* a create_task_file without the existence check
CreateRefusesNever(fsys, target) == FALSE

\* create_task_file: TRUE when the call refuses to write
CreateRefuses(fsys, target) == target \in DOMAIN fsys

\* create_task_file(project_id, task_data)
CreateTaskData(td) ==
    /\ LET id == td["id"][1]
           target == CreateTarget(td)
           ds == IF exists THEN dirs ELSE CreateProjectDirs(dirs)
       IN /\ exists' = TRUE
          /\ readme' = IF exists THEN readme
                       ELSE ReadmeText(<<"Auto-created", SP, "project", SP, "p1">>)
          /\ dirs' = MkdirP(ds, target.dir)
          /\ IF CreateRefuses(fs, target)
             THEN /\ fs' = fs
                  /\ last' = Result("createTask", id, FALSE, td, NoFile, NoFile, target)
             ELSE /\ fs' = WriteFile(fs, target, CreateContent(td, now))
                  /\ last' = Result("createTask", id, TRUE, td, NoFile, NoFile, target)
    /\ prev' = fs
    /\ now' = now + 1
    /\ UNCHANGED <<race, wip, cfd, codec>>

\* POST /api/projects/<p>/tasks: create_task_file
CreateTaskOp(ids, bound) ==
    /\ now <= bound
    /\ \E id \in ids : \E td \in CreateInputs(id) : CreateTaskData(td)

\* update_task_file(project_id, task_data); rep records that the call
\* repeats the task_data of a successful call just before it, first is
\* the file that call wrote
UpdateTaskData(td) ==
    /\ LET id == td["id"][1]
           again == last.op = "updateTask" /\ last.ok /\ last.td = td
           first == IF again THEN last.new ELSE NoFile
       IN IF ~exists
          THEN /\ UNCHANGED <<fs, dirs>>
               /\ last' = Result("updateTask", id, FALSE, td, NoFile, NoFile, NoFile)
          ELSE \E cur \in Located(fs, dirs, id) :
                  LET r == UpdateTaskFile(fs, dirs, td, now, cur)
                  IN /\ fs' = r.fs
                     /\ dirs' = r.dirs
                     /\ last' = [Result("updateTask", id, r.ok, td, NoFile, r.cur, r.new)
                                    EXCEPT !.rep = again, !.first = first]
    /\ prev' = fs
    /\ now' = now + 1
    /\ UNCHANGED <<exists, readme, race, wip, cfd, codec>>

\* PUT /api/projects/<p>/tasks/<id>: update_task_file
UpdateTaskOp(ids, bound) ==
    /\ now <= bound
    /\ \E id \in ids : \E td \in UpdateInputs(fs, id) : UpdateTaskData(td)

\* DELETE /api/projects/<p>/tasks/<id>
DeleteTaskOp(ids) ==
    /\ \E id \in ids :
        IF ~exists \/ HandlerLocate(fs, dirs, id) = {}
        THEN /\ fs' = fs
             /\ last' = Result("deleteTask", id, FALSE, EmptyDict, NoFile, NoFile, NoFile)
        ELSE \E f \in HandlerLocate(fs, dirs, id) :
                /\ fs' = Unlink(fs, f)
                /\ last' = Result("deleteTask", id, TRUE, EmptyDict, f, NoFile, NoFile)
    /\ prev' = fs
    /\ UNCHANGED <<exists, dirs, readme, now, race, wip, cfd, codec>>

\* do_POST (block): the task dictionary handed to update_task_file
BlockData(task, reason, n) ==
    [task EXCEPT !.blocked = PyBool(TRUE),
                 !.blocked_at = IsoNowUtc(n),
                 !.blocked_reason = reason,
                 !.unblocked_at = NoneVal]

\* do_POST (unblock): the task dictionary handed to update_task_file
UnblockData(task, n) ==
    [task EXCEPT !.blocked = PyBool(FALSE),
                 !.unblocked_at = IsoNowUtc(n)]

\* The common course of the block and unblock handlers: search, parse,
\* change the blocked fields, update_task_file.
BlockedUpdate(op, id, reason) ==
    IF ~exists \/ HandlerLocate(fs, dirs, id) = {}
    THEN /\ UNCHANGED <<fs, dirs>>
         /\ last' = Result(op, id, FALSE, EmptyDict, NoFile, NoFile, NoFile)
    ELSE \E f \in HandlerLocate(fs, dirs, id) : \E cur \in Located(fs, dirs, id) :
            LET task == ParseTask(id, fs[f])
                td == IF op = "blockTask" THEN BlockData(task, reason, now)
                                          ELSE UnblockData(task, now)
                r == UpdateTaskFile(fs, dirs, td, now, cur)
            IN /\ fs' = r.fs
               /\ dirs' = r.dirs
               /\ last' = [Result(op, id, r.ok, td, f, r.cur, r.new) EXCEPT !.reason = reason]

\* POST /api/projects/<p>/tasks/<id>/block
BlockTaskOp(ids, bound) ==
    /\ now <= bound
    /\ \E id \in ids : \E reason \in Reasons :
        BlockedUpdate("blockTask", id, reason)
    /\ prev' = fs
    /\ now' = now + 1
    /\ UNCHANGED <<exists, readme, race, wip, cfd, codec>>

\* POST /api/projects/<p>/tasks/<id>/unblock
UnblockTaskOp(ids, bound) ==
    /\ now <= bound
    /\ \E id \in ids :
        BlockedUpdate("unblockTask", id, <<>>)
    /\ prev' = fs
    /\ now' = now + 1
    /\ UNCHANGED <<exists, readme, race, wip, cfd, codec>>

\* Spec: every operation; the second task is only created and deleted.
CreateTask == CreateTaskOp(Ids, MaxClock)
UpdateTask == UpdateTaskOp({"t1"}, MaxClock)
DeleteTask == DeleteTaskOp(Ids)
BlockTask == BlockTaskOp({"t1"}, MaxClock)
UnblockTask == UnblockTaskOp({"t1"}, MaxClock)

Next ==
    \/ CreateProject
    \/ CreateTask
    \/ UpdateTask
    \/ DeleteTask
    \/ BlockTask
    \/ UnblockTask

Spec == Init /\ [][Next]_vars

\* SpecBlock: one task, created, updated, blocked and unblocked, in longer
\* runs.
BCreateTask == CreateTaskOp({"t1"}, MaxBlockOps)
BUpdateTask == UpdateTaskOp({"t1"}, MaxBlockOps)
BBlockTask == BlockTaskOp({"t1"}, MaxBlockOps)
BUnblockTask == UnblockTaskOp({"t1"}, MaxBlockOps)

NextBlock ==
    \/ BCreateTask
    \/ BUpdateTask
    \/ BBlockTask
    \/ BUnblockTask

SpecBlock == Init /\ [][NextBlock]_vars

\* SpecDup: one task ID created in two places (the flat backlog file and
\* inprogress/dev-a), then updated, blocked and unblocked.
DupCreateInputs ==
    LET base == [id |-> <<"t1">>, title |-> Title, content |-> Body]
    IN { base,
         base @@ [folder |-> <<"inprogress", "/", "dev-a">>, status |-> <<"inprogress">>] }

\* the listed task sent back with status done, or a bare status change
DupUpdateInputs(fsys) ==
    { [status |-> <<"done">>] @@ ListedTask(fsys, f) : f \in FilesOf(fsys, "t1") }
    \cup { [id |-> <<"t1">>, status |-> <<"progress">>] }

DCreateTask == now <= MaxDupOps /\ \E td \in DupCreateInputs : CreateTaskData(td)
DUpdateTask == now <= MaxDupOps /\ \E td \in DupUpdateInputs(fs) : UpdateTaskData(td)
DBlockTask == BlockTaskOp({"t1"}, MaxDupOps)
DUnblockTask == UnblockTaskOp({"t1"}, MaxDupOps)

NextDup ==
    \/ DCreateTask
    \/ DUpdateTask
    \/ DBlockTask
    \/ DUnblockTask

SpecDup == Init /\ [][NextDup]_vars

\* SpecIdem: one task, created directly in backlog or in a developer
\* subfolder, then updated with every combination of the developer and
\* assignee fields.
IdemCreateInputs ==
    LET base == [id |-> <<"t1">>, title |-> Title, content |-> Body]
    IN { base, base @@ [folder |-> <<"backlog", "/", "dev-b">>] }

IdemUpdateInputs ==
    LET base == [id |-> <<"t1">>, title |-> Title, content |-> Body]
        developers == { EmptyDict, [developer |-> <<>>], [developer |-> <<"dev-a">>] }
        assignees == { EmptyDict, [assignee |-> <<"dev-a">>], [assignee |-> <<"Ann">>] }
    IN { base @@ [status |-> <<"progress">>] @@ d @@ a : d \in developers, a \in assignees }
       \cup { base @@ [status |-> <<"archive">>] }

ICreateTask == now <= MaxIdemOps /\ \E td \in IdemCreateInputs : CreateTaskData(td)
IUpdateTask == now <= MaxIdemOps /\ \E td \in IdemUpdateInputs : UpdateTaskData(td)

NextIdem ==
    \/ ICreateTask
    \/ IUpdateTask

SpecIdem == Init /\ [][NextIdem]_vars

\* ------------------------------------------------------------------ race
\* SpecRace: two update_task_file calls for the same task, each a thread
\* of the HTTP server, taking one file operation per step (the search for
\* the current file is one step).  In mode "serial" the second call
\* starts when the first has returned.
Procs == {1, 2}

\* task_data of the two calls: the same task, different destinations
RaceInputs ==
    { [id |-> <<"t1">>, status |-> st] : st \in {<<"progress">>, <<"review">>, <<"done">>} }

\* a call that has not started; copies is the number of files <id>.md it
\* meets when it starts
NewCall(td) ==
    [pc |-> "locate", td |-> td, cur |-> NoFile, new |-> NoFile, content |-> <<>>,
     ok |-> FALSE, copies |-> 0]

InitRace ==
    /\ InitFiles
    /\ Aside
    /\ \E mode \in {"serial", "interleaved"} : \E td1, td2 \in RaceInputs :
          /\ td1 # td2
          /\ race = [mode |-> mode, p |-> [i \in Procs |-> NewCall(IF i = 1 THEN td1 ELSE td2)]]

\* the task the calls are about is created first (a second create can
\* leave a second file of the same name)
RaceCreate ==
    /\ \A i \in Procs : race.p[i].pc = "locate"
    /\ CreateTaskOp({"t1"}, MaxRaceCreates)

MayStep(i) ==
    /\ race.mode # "none"
    /\ race.mode = "serial" /\ i = 2 => race.p[1].pc = "done"

Goto(i, pc) == race' = [race EXCEPT !.p[i].pc = pc]
Return(i, ok) == race' = [race EXCEPT !.p[i].pc = "done", !.p[i].ok = ok]

\* lines 2473-2534: project_path.exists() and the search
StepLocate(i) ==
    /\ MayStep(i)
    /\ race.p[i].pc = "locate"
    /\ FilesOf(fs, "t1") # {} \/ \E j \in Procs : race.p[j].pc # "locate"
    /\ \E cur \in Located(fs, dirs, "t1") :
          IF ~exists \/ cur = NoFile
          THEN race' = [race EXCEPT !.p[i].pc = "done", !.p[i].ok = FALSE,
                                    !.p[i].copies = Cardinality(FilesOf(fs, "t1"))]
          ELSE race' = [race EXCEPT !.p[i].pc = "mkdir", !.p[i].cur = cur,
                                    !.p[i].copies = Cardinality(FilesOf(fs, "t1"))]
    /\ UNCHANGED <<exists, dirs, fs, readme, now, prev, last, wip, cfd, codec>>

\* lines 2536-2566: the new path and new_folder_path.mkdir
StepMkdir(i) ==
    /\ MayStep(i)
    /\ race.p[i].pc = "mkdir"
    /\ LET new == File(NewDir(race.p[i].td, race.p[i].cur), "t1")
       IN /\ dirs' = MkdirP(dirs, new.dir)
          /\ race' = [race EXCEPT !.p[i].pc = "destExists", !.p[i].new = new]
    /\ UNCHANGED <<exists, fs, readme, now, prev, last, wip, cfd, codec>>

\* lines 2599-2642: the timestamps and file_content
Build(i, pc) ==
    /\ race' = [race EXCEPT !.p[i].pc = pc,
                            !.p[i].content = UpdateContent(race.p[i].td, now)]
    /\ now' = now + 1

\* line 2570: new_task_file.exists() and str(new_task_file) != str(current_file)
StepDestExists(i) ==
    /\ MayStep(i)
    /\ race.p[i].pc = "destExists"
    /\ IF race.p[i].new \in DOMAIN fs /\ race.p[i].new # race.p[i].cur
       THEN Goto(i, "destRead") /\ now' = now
       ELSE Build(i, IF race.p[i].new # race.p[i].cur THEN "curExists" ELSE "write")
    /\ UNCHANGED <<exists, dirs, fs, readme, prev, last, wip, cfd, codec>>

\* lines 2572-2581: read the destination file; a failing read returns False
StepDestRead(i) ==
    /\ MayStep(i)
    /\ race.p[i].pc = "destRead"
    /\ IF race.p[i].new \notin DOMAIN fs
       THEN Return(i, FALSE) /\ now' = now
       ELSE IF DestinationAbort(fs, race.p[i].new, race.p[i].cur, "t1")
       THEN Return(i, FALSE) /\ now' = now
       ELSE Build(i, "curExists")
    /\ UNCHANGED <<exists, dirs, fs, readme, prev, last, wip, cfd, codec>>

\* line 2653: current_file.exists()
StepCurExists(i) ==
    /\ MayStep(i)
    /\ race.p[i].pc = "curExists"
    /\ Goto(i, IF race.p[i].cur \in DOMAIN fs THEN "curRead" ELSE "write")
    /\ UNCHANGED <<exists, dirs, fs, readme, now, prev, last, wip, cfd, codec>>

\* lines 2656-2659: read the current file; a failing read returns False
StepCurRead(i) ==
    /\ MayStep(i)
    /\ race.p[i].pc = "curRead"
    /\ IF race.p[i].cur \notin DOMAIN fs THEN Return(i, FALSE)
       ELSE IF SafetyAbort(fs, race.p[i].cur, "t1") THEN Return(i, FALSE)
       ELSE Goto(i, "unlink")
    /\ UNCHANGED <<exists, dirs, fs, readme, now, prev, last, wip, cfd, codec>>

\* line 2662: current_file.unlink(); a missing file raises and returns False
StepUnlink(i) ==
    /\ MayStep(i)
    /\ race.p[i].pc = "unlink"
    /\ IF race.p[i].cur \notin DOMAIN fs
       THEN Return(i, FALSE) /\ fs' = fs
       ELSE Goto(i, "write") /\ fs' = RemoveOld(fs, race.p[i].cur, race.p[i].new)
    /\ UNCHANGED <<exists, dirs, readme, now, prev, last, wip, cfd, codec>>

\* line 2675: new_task_file.write_text
StepWrite(i) ==
    /\ MayStep(i)
    /\ race.p[i].pc = "write"
    /\ fs' = WriteFile(fs, race.p[i].new, race.p[i].content)
    /\ Return(i, TRUE)
    /\ UNCHANGED <<exists, dirs, readme, now, prev, last, wip, cfd, codec>>

RaceLocate == \E i \in Procs : StepLocate(i)
RaceMkdir == \E i \in Procs : StepMkdir(i)
RaceDestExists == \E i \in Procs : StepDestExists(i)
RaceDestRead == \E i \in Procs : StepDestRead(i)
RaceCurExists == \E i \in Procs : StepCurExists(i)
RaceCurRead == \E i \in Procs : StepCurRead(i)
RaceUnlink == \E i \in Procs : StepUnlink(i)
RaceWrite == \E i \in Procs : StepWrite(i)

NextRace ==
    \/ RaceCreate
    \/ RaceLocate
    \/ RaceMkdir
    \/ RaceDestExists
    \/ RaceDestRead
    \/ RaceCurExists
    \/ RaceCurRead
    \/ RaceUnlink
    \/ RaceWrite

SpecRace == InitRace /\ [][NextRace]_vars

\* ------------------------------------------------------------------ create race
\* SpecExcl: two create_task_file calls with the same task ID and the same
\* target folder, each taking one file operation per step; in mode
\* "serial" the second call starts when the first has returned.
ExclFolders ==
    { EmptyDict, [folder |-> <<"progress">>], [folder |-> <<"backlog", "/", "dev-a">>] }

\* task_data of call i: the calls differ in the title
ExclData(i, folder) ==
    [id |-> <<"t1">>, title |-> IF i = 1 THEN Title ELSE <<"Other", SP, "bug">>,
     content |-> Body] @@ folder

InitExcl ==
    /\ InitFiles
    /\ Aside
    /\ \E mode \in {"serial", "interleaved"} : \E folder \in ExclFolders :
          race = [mode |-> mode,
                  p |-> [i \in Procs |->
                          [pc |-> "mkdir", td |-> ExclData(i, folder),
                           content |-> <<>>, ok |-> FALSE]]]

\* the project is made first, or is left to the first call
ExclCreateProject ==
    /\ \A i \in Procs : race.p[i].pc = "mkdir"
    /\ ~exists
    /\ CreateProject

\* lines 2685-2711: project_path.exists(), create_project, folder_path.mkdir
ExclMkdir(i) ==
    /\ MayStep(i)
    /\ race.p[i].pc = "mkdir"
    /\ exists' = TRUE
    /\ readme' = IF exists THEN readme
                 ELSE ReadmeText(<<"Auto-created", SP, "project", SP, "p1">>)
    /\ dirs' = MkdirP(IF exists THEN dirs ELSE CreateProjectDirs(dirs),
                      CreateTarget(race.p[i].td).dir)
    /\ Goto(i, "exists")
    /\ UNCHANGED <<fs, now, prev, last, wip, cfd, codec>>

\* lines 2714-2753: task_file.exists(), then the frontmatter and file_content
ExclExists(i) ==
    /\ MayStep(i)
    /\ race.p[i].pc = "exists"
    /\ IF CreateRefuses(fs, CreateTarget(race.p[i].td))
       THEN Return(i, FALSE) /\ now' = now
       ELSE /\ race' = [race EXCEPT !.p[i].pc = "write",
                                    !.p[i].content = CreateContent(race.p[i].td, now)]
            /\ now' = now + 1
    /\ UNCHANGED <<exists, dirs, fs, readme, prev, last, wip, cfd, codec>>

\* lines 2756-2759: task_file.write_text, return True
ExclWrite(i) ==
    /\ MayStep(i)
    /\ race.p[i].pc = "write"
    /\ fs' = WriteFile(fs, CreateTarget(race.p[i].td), race.p[i].content)
    /\ prev' = fs
    /\ Return(i, TRUE)
    /\ UNCHANGED <<exists, dirs, readme, now, last, wip, cfd, codec>>

ExclMkdirStep == \E i \in Procs : ExclMkdir(i)
ExclExistsStep == \E i \in Procs : ExclExists(i)
ExclWriteStep == \E i \in Procs : ExclWrite(i)

NextExcl ==
    \/ ExclCreateProject
    \/ ExclMkdirStep
    \/ ExclExistsStep
    \/ ExclWriteStep

SpecExcl == InitExcl /\ [][NextExcl]_vars

\* ------------------------------------------------------------------ move
\* SpecMove: one update_task_file call, one file operation per step, on a
\* tree that is not the call's alone: another writer can rewrite the
\* located file before the call reads it again, a read, an unlink or a
\* write can raise, and the process can stop between two steps.
MoveBody == <<"Task", SP, "t1">>

\* what another writer leaves in the file: a task file without the ID
ForeignText == FileText(<<"title", ":", SP, "Other">>, <<"notes">>)

\* the tasks created before the call: their content names the task ID
MoveCreateInputs ==
    LET base == [id |-> <<"t1">>, title |-> Title, content |-> MoveBody]
    IN { base,
         base @@ [folder |-> <<"backlog", "/", "dev-a">>],
         [id |-> <<"t2">>, title |-> Title, content |-> Body] }

\* task_data of the call
MoveInputs ==
    { [id |-> <<"t1">>, status |-> <<"progress">>],
      [id |-> <<"t1">>, status |-> <<"backlog">>, content |-> MoveBody],
      [id |-> <<"t1">>, status |-> <<"backlog">>, developer |-> <<"dev-a">>] }

\* the call, not yet entered; fault is the file operation that raised
\* ("crash": the process stopped), at the step it hit
InitMove ==
    /\ InitFiles
    /\ Aside
    /\ \E td \in MoveInputs :
          race = [mode |-> "move",
                  p |-> [i \in Procs |-> [NewCall(td) EXCEPT !.pc = "start"]],
                  fault |-> "none", at |-> "", edited |-> FALSE]

Moving == race.mode = "move"
Call == race.p[1]

MoveCreate ==
    /\ Moving
    /\ Call.pc = "start"
    /\ now <= MaxMoveCreates
    /\ \E td \in MoveCreateInputs : CreateTaskData(td)

\* do_PUT calls update_task_file (lines 2471-2483)
MoveStart ==
    /\ Moving
    /\ Call.pc = "start"
    /\ race' = [race EXCEPT !.p[1].pc = "locate"]
    /\ prev' = fs
    /\ UNCHANGED <<exists, dirs, fs, readme, now, last, wip, cfd, codec>>

MoveLocate == Moving /\ StepLocate(1)
MoveMkdir == Moving /\ StepMkdir(1)
MoveDestExists == Moving /\ StepDestExists(1)
MoveDestRead == Moving /\ StepDestRead(1)
MoveCurExists == Moving /\ StepCurExists(1)
MoveCurRead == Moving /\ StepCurRead(1)
MoveUnlink == Moving /\ StepUnlink(1)
MoveWrite == Moving /\ StepWrite(1)

\* another writer rewrites the located file between the search and the
\* read of line 2656
MoveEdit ==
    /\ Moving
    /\ ~race.edited
    /\ Call.pc \in {"mkdir", "destExists", "destRead", "curExists", "curRead"}
    /\ Call.cur \in DOMAIN fs
    /\ fs' = WriteFile(fs, Call.cur, ForeignText)
    /\ race' = [race EXCEPT !.edited = TRUE]
    /\ UNCHANGED <<exists, dirs, readme, now, prev, last, wip, cfd, codec>>

\* the call returns False from an except clause
Raised(kind) ==
    race' = [race EXCEPT !.p[1].pc = "done", !.p[1].ok = FALSE,
                         !.fault = kind, !.at = Call.pc]

\* lines 2579-2581 and 2665-2667: read_text raises
MoveReadFails ==
    /\ Moving
    /\ Call.pc \in {"destRead", "curRead"}
    /\ Raised("read")
    /\ UNCHANGED <<exists, dirs, fs, readme, now, prev, last, wip, cfd, codec>>

\* lines 2662-2667: unlink raises
MoveUnlinkFails ==
    /\ Moving
    /\ Call.pc = "unlink"
    /\ Raised("unlink")
    /\ UNCHANGED <<exists, dirs, fs, readme, now, prev, last, wip, cfd, codec>>

\* lines 2675-2679: write_text raises, when it opens the file (nothing is
\* written) or after it has opened it (the file is left empty)
MoveWriteFails ==
    /\ Moving
    /\ Call.pc = "write"
    /\ Raised("write")
    /\ fs' \in {fs, WriteFile(fs, Call.new, <<>>)}
    /\ UNCHANGED <<exists, dirs, readme, now, prev, last, wip, cfd, codec>>

\* the server process stops inside the call
MoveCrash ==
    /\ Moving
    /\ Call.pc \notin {"start", "done", "crashed"}
    /\ race' = [race EXCEPT !.p[1].pc = "crashed", !.fault = "crash", !.at = Call.pc]
    /\ UNCHANGED <<exists, dirs, fs, readme, now, prev, last, wip, cfd, codec>>

NextMove ==
    \/ MoveCreate
    \/ MoveStart
    \/ MoveLocate
    \/ MoveMkdir
    \/ MoveDestExists
    \/ MoveDestRead
    \/ MoveCurExists
    \/ MoveCurRead
    \/ MoveUnlink
    \/ MoveWrite
    \/ MoveEdit
    \/ MoveReadFails
    \/ MoveUnlinkFails
    \/ MoveWriteFails
    \/ MoveCrash

SpecMove == InitMove /\ [][NextMove]_vars

\* ------------------------------------------------------------------ WIP
\* A limit is <<n>>, or <<>> for null (JSON null, or no entry).
NoLimit == <<>>

\* wip_warnings.get('warning_threshold', 0.8), in tenths
DefaultThreshold == 8

\* status_path.rglob('*.md') without README.md: the task files anywhere
\* under the folder <status>
CountUnder(fsys, status) ==
    Cardinality({f \in DOMAIN fsys : f.dir # <<>> /\ f.dir[1] = status /\ f.id # "README"})

\* check_wip_limit(project_id, status): (allowed, current_count, limit,
\* warning).  The threshold is a number of tenths, so that
\* current_count >= limit * warning_threshold is 10 * count >= limit * tenths.
CheckWipLimit(fsys, ds, ex, cfg, status) ==
    LET limit == Get(cfg.wip_limits, status, NoLimit)
        count == CountUnder(fsys, status)
        is_warning == 10 * count >= limit[1] * cfg.warning_threshold
        is_blocked == cfg.block_on_limit /\ count >= limit[1]
    IN IF limit = NoLimit
       THEN [allowed |-> TRUE, count |-> 0, limit |-> NoLimit, warning |-> FALSE]
       ELSE IF ~ex \/ <<status>> \notin ds
       THEN [allowed |-> TRUE, count |-> 0, limit |-> limit, warning |-> FALSE]
       ELSE [allowed |-> ~is_blocked, count |-> count, limit |-> limit,
             warning |-> is_warning]

\* wip-config.json: a limit for progress, none for backlog
WipConfigs ==
    { [wip_limits |-> [backlog |-> NoLimit, progress |-> l],
       warning_threshold |-> t, block_on_limit |-> b] :
         l \in {NoLimit, <<0>>, <<1>>, <<5>>}, t \in {DefaultThreshold, 10}, b \in BOOLEAN }

\* The tasks of a project that holds k tasks in progress: directly in the
\* folder, in a developer subfolder and one level below it.
WipIds == <<"w1", "w2", "w3", "w4", "w5", "w6", "w7", "w8">>
WipFolders ==
    << <<"progress">>, <<"progress", "/", "dev-a">>, <<"progress", "/", "dev-a", "/", "sub">>,
       <<"progress">>, <<"progress", "/", "dev-b">> >>
WipTask(i) ==
    [id |-> <<WipIds[i]>>, title |-> Title,
     folder |-> WipFolders[IF i <= Len(WipFolders) THEN i ELSE 1]]

WipTree(k) ==
    [f \in {CreateTarget(WipTask(i)) : i \in 1..k} |->
        CreateContent(WipTask(CHOOSE i \in 1..k : CreateTarget(WipTask(i)) = f), 1)]

WipDirs(k) ==
    SkeletonDirs \cup UNION {MkdirP({}, CreateTarget(WipTask(i)).dir) : i \in 1..k}

\* SpecWip: a project with k tasks in progress and a WIP configuration;
\* limits are checked, tasks are created and moved.
InitWip ==
    /\ now = 1
    /\ prev = NoFiles
    /\ last = [op |-> "init", id |-> "", ok |-> TRUE, td |-> EmptyDict,
               found |-> NoFile, cur |-> NoFile, new |-> NoFile, reason |-> <<>>,
               rep |-> FALSE, first |-> NoFile, fault |-> "none"]
    /\ \/ /\ exists = FALSE
          /\ dirs = {}
          /\ fs = NoFiles
          /\ readme = NoReadme
       \/ /\ exists = TRUE
          /\ readme = ReadmeText(ProjectDescription)
          /\ \E k \in 0..MaxWipTasks : fs = WipTree(k) /\ dirs = WipDirs(k)
    /\ \E cfg \in WipConfigs : wip = [mode |-> "wip", cfg |-> cfg, result |-> <<>>]
    /\ race = NoRace
    /\ cfd = NoCfd
    /\ codec = NoCodec

WipStatuses == {"backlog", "progress", "inprogress"}

\* get_wip_status (GET /api/projects/<p>/wip-status): check_wip_limit for
\* one status
WCheck ==
    /\ \E status \in WipStatuses :
          /\ wip' = [wip EXCEPT !.result = CheckWipLimit(fs, dirs, exists, wip.cfg, status)]
          /\ last' = Result("checkWip", status, TRUE, EmptyDict, NoFile, NoFile, NoFile)
    /\ prev' = fs
    /\ UNCHANGED <<exists, dirs, fs, readme, now, race, cfd, codec>>

WipCreateInputs ==
    LET base == [id |-> <<"t1">>, title |-> Title, content |-> Body]
    IN { base, base @@ [folder |-> <<"progress">>] }

WipUpdateInputs ==
    { [id |-> <<"t1">>, status |-> <<"progress">>],
      [id |-> <<"w1">>, status |-> <<"review">>] }

WCreateTask == now <= MaxWipOps /\ \E td \in WipCreateInputs : CreateTaskData(td)
WUpdateTask == now <= MaxWipOps /\ \E td \in WipUpdateInputs : UpdateTaskData(td)

NextWip ==
    \/ WCheck
    \/ WCreateTask
    \/ WUpdateTask

SpecWip == InitWip /\ [][NextWip]_vars

\* ------------------------------------------------------------------ flow
\* take_cfd_snapshot: the folder counted for a state, none when neither
\* the folder nor, for progress, the folder inprogress exists
StateFolder(ds, state) ==
    IF <<state>> \in ds THEN <<state>>
    ELSE IF state = "progress" /\ <<"inprogress">> \in ds THEN <<"inprogress">>
    ELSE <<>>

\* take_cfd_snapshot: state_counts
TakeCfdSnapshot(fsys, ds) ==
    [state \in {"backlog", "progress", "review", "testing", "done"} |->
        IF StateFolder(ds, state) = <<>> THEN 0
        ELSE CountUnder(fsys, StateFolder(ds, state)[1])]

\* get_project_tasks: the files whose tasks the list holds
ListedFiles(fsys, ds) ==
    {f \in DOMAIN fsys : /\ Len(f.dir) \in {1, 2}
                         /\ InList(<<f.dir[1]>>, ListFolders)
                         /\ f.dir \in ds
                         /\ f.id # "README"}

\* the number of listed tasks with task['column'] = column
ListedInColumn(fsys, ds, column) ==
    Cardinality({f \in ListedFiles(fsys, ds) : ListedTask(fsys, f).column = <<column>>})

\* SpecFlow: tasks are created in backlog, progress and inprogress, directly
\* and in a developer subfolder, under a WIP limit for progress; the WIP
\* status, a flow snapshot and the task list are read from the same tree.
FlowConfig ==
    [wip_limits |-> [backlog |-> NoLimit, progress |-> <<5>>],
     warning_threshold |-> DefaultThreshold, block_on_limit |-> FALSE]

FlowCreateInputs ==
    { [id |-> <<id>>, title |-> Title] @@ folder :
        id \in Ids,
        folder \in { EmptyDict,
                     [folder |-> <<"progress">>],
                     [folder |-> <<"progress", "/", "dev-a">>],
                     [folder |-> <<"inprogress">>],
                     [folder |-> <<"inprogress", "/", "dev-a">>] } }

InitFlow ==
    /\ InitFiles
    /\ race = NoRace
    /\ cfd = NoCfd
    /\ codec = NoCodec
    /\ wip = [mode |-> "flow", cfg |-> FlowConfig, check |-> <<>>, snapshot |-> <<>>,
              listed |-> 0]

FCreateTask == now <= MaxFlowOps /\ \E td \in FlowCreateInputs : CreateTaskData(td)

\* GET wip-status, POST cfd-snapshot and GET tasks, with no write between
FMeasure ==
    /\ exists
    /\ wip' = [wip EXCEPT
                 !.check = CheckWipLimit(fs, dirs, exists, wip.cfg, "progress"),
                 !.snapshot = TakeCfdSnapshot(fs, dirs),
                 !.listed = ListedInColumn(fs, dirs, "progress")]
    /\ last' = Result("measure", "", TRUE, EmptyDict, NoFile, NoFile, NoFile)
    /\ prev' = fs
    /\ UNCHANGED <<exists, dirs, fs, readme, now, race, cfd, codec>>

NextFlow ==
    \/ FCreateTask
    \/ FMeasure

SpecFlow == InitFlow /\ [][NextFlow]_vars

\* ------------------------------------------------------------------ CFD
\* store_cfd_snapshot: max_days
MaxDays == 90

\* now.strftime('%Y-%m-%d') on day n of the model's calendar, as the
\* zero-padded fields <<year, month, day>>; comparing two such strings is
\* comparing the fields in this order
DateOf(n) == <<2026, 1 + ((n - 1) \div 28), 1 + ((n - 1) % 28)>>
DayOf(date) == (date[2] - 1) * 28 + date[3]

\* str a < str b for two dates
DateLess(a, b) ==
    \/ a[1] < b[1]
    \/ a[1] = b[1] /\ a[2] < b[2]
    \/ a[1] = b[1] /\ a[2] = b[2] /\ a[3] < b[3]

\* take_cfd_snapshot: the snapshot dictionary, for c tasks in backlog
Snapshot(n, c) ==
    [date |-> DateOf(n), timestamp |-> DateOf(n),
     backlog |-> c, progress |-> 0, review |-> 0, testing |-> 0, done |-> 0]

\* list.sort(key=lambda x: x['date']): a stable sort
SortByDate(h) ==
    LET place == [i \in 1..Len(h) |->
                    Cardinality({j \in 1..Len(h) : DateLess(h[j].date, h[i].date)})
                    + Cardinality({j \in 1..i : h[j].date = h[i].date})] \o <<>>
    IN [k \in 1..Len(h) |-> h[CHOOSE i \in 1..Len(h) : place[i] = k]] \o <<>>

\* a store that appends whatever the history holds
AppendOnly(h, snapshot) == Append(h, snapshot)

\* store_cfd_snapshot: "Update existing snapshot" or "Add new snapshot"
Upsert(h, snapshot) ==
    LET existing == {i \in 1..Len(h) : h[i].date = snapshot.date}
    IN IF existing # {} THEN [h EXCEPT ![Least(existing)] = snapshot]
       ELSE Append(h, snapshot)

\* a limit that keeps the oldest entries
KeepOldest(h) == IF Len(h) > MaxDays THEN SubSeq(h, 1, MaxDays) ELSE h

\* store_cfd_snapshot: "Limit to last 90 days"
KeepLast(h) == IF Len(h) > MaxDays THEN SubSeq(h, Len(h) - MaxDays + 1, Len(h)) ELSE h

\* store_cfd_snapshot: the history that is saved
StoreCfdSnapshot(h, snapshot) == KeepLast(SortByDate(Upsert(h, snapshot)))

\* a history of one snapshot a day, from day 2 on, with empty backlogs
Daily(n) == [i \in 1..n |-> Snapshot(i + 1, 0)]

\* the days a snapshot is stored for: around the ends of the history
StoreDays(h) ==
    IF h = <<>> THEN {5, 6}
    ELSE {d \in {DayOf(h[1].date) - 1, DayOf(h[1].date), DayOf(h[1].date) + 1,
                 DayOf(h[Len(h)].date), DayOf(h[Len(h)].date) + 1} : d >= 1}

\* SpecCfd: snapshots are stored into the history of one project, which is
\* empty or holds a snapshot for each of the last 89 or 90 days.
InitCfd ==
    /\ InitFiles
    /\ race = NoRace
    /\ wip = NoWip
    /\ codec = NoCodec
    /\ \E h \in {<<>>, Daily(MaxDays - 1), Daily(MaxDays)} :
          cfd = [mode |-> "cfd", history |-> h, before |-> h, stored |-> <<>>, n |-> 0]

\* store_cfd_snapshot(project_id, snapshot)
StoreSnapshot ==
    /\ cfd.mode = "cfd"
    /\ cfd.n < MaxStores
    /\ \E d \in StoreDays(cfd.history) : \E c \in {1, 2} :
          cfd' = [mode |-> "cfd",
                  history |-> StoreCfdSnapshot(cfd.history, Snapshot(d, c)),
                  before |-> cfd.history,
                  stored |-> <<Snapshot(d, c)>>,
                  n |-> cfd.n + 1]
    /\ UNCHANGED <<exists, dirs, fs, readme, now, prev, last, race, wip, codec>>

NextCfd == StoreSnapshot

SpecCfd == InitCfd /\ [][NextCfd]_vars

\* ------------------------------------------------------------------ I/O
\* SpecIo: the operations that write or delete, each with a file operation
\* that can raise (a full disk, a file or directory without permission).
IoCreateInputs ==
    LET base == [id |-> <<"t1">>, title |-> Title, content |-> Body]
    IN { base, base @@ [folder |-> <<"progress">>] }

IoUpdateInputs ==
    { [id |-> <<"t1">>, status |-> <<"review">>],
      [id |-> <<"t1">>, status |-> <<"backlog">>] }

InitIo ==
    /\ InitFiles
    /\ race = NoRace
    /\ wip = NoWip
    /\ codec = NoCodec
    /\ cfd = [mode |-> "cfd", history |-> <<>>, before |-> <<>>, stored |-> <<>>, n |-> 0]

IoCreateTask == now <= MaxIoOps /\ \E td \in IoCreateInputs : CreateTaskData(td)
IoUpdateTask == now <= MaxIoOps /\ \E td \in IoUpdateInputs : UpdateTaskData(td)

\* write_text raises: when it opens the file (nothing is written) or
\* after it has opened it (the file is left empty)
FailedWrite(fsys, f) == {fsys, WriteFile(fsys, f, <<>>)}

\* create_task_file, lines 2756-2762: write_text raises
IoCreateFails ==
    /\ now <= MaxIoOps
    /\ exists
    /\ \E td \in IoCreateInputs :
          LET target == CreateTarget(td)
          IN /\ ~CreateRefuses(fs, target)
             /\ dirs' = MkdirP(dirs, target.dir)
             /\ fs' \in FailedWrite(fs, target)
             /\ last' = [Result("createTask", "t1", FALSE, td, NoFile, NoFile, target)
                            EXCEPT !.fault = "write"]
    /\ prev' = fs
    /\ now' = now + 1
    /\ UNCHANGED <<exists, readme, race, wip, cfd, codec>>

\* update_task_file, lines 2672-2679: write_text raises, after the old
\* file of a move has been removed
IoUpdateFails ==
    /\ now <= MaxIoOps
    /\ exists
    /\ \E td \in IoUpdateInputs : \E cur \in UpdateLocate(fs, dirs, "t1") :
          LET r == UpdateTaskFile(fs, dirs, td, now, cur)
          IN /\ r.ok
             /\ dirs' = r.dirs
             /\ fs' \in FailedWrite(RemoveOld(fs, cur, r.new), r.new)
             /\ last' = [Result("updateTask", "t1", FALSE, td, NoFile, cur, r.new)
                            EXCEPT !.fault = "write"]
    /\ prev' = fs
    /\ now' = now + 1
    /\ UNCHANGED <<exists, readme, race, wip, cfd, codec>>

\* do_DELETE, lines 781-794: unlink raises
IoDeleteFails ==
    /\ exists
    /\ \E f \in HandlerLocate(fs, dirs, "t1") :
          last' = [Result("deleteTask", "t1", FALSE, EmptyDict, f, NoFile, NoFile)
                      EXCEPT !.fault = "unlink"]
    /\ prev' = fs
    /\ UNCHANGED <<exists, dirs, fs, readme, now, race, wip, cfd, codec>>

\* store_cfd_snapshot, lines 378-380: save_cfd_data returns True, or
\* False when the history file cannot be written; the call returns True
IoStoreSnapshot ==
    /\ cfd.n < MaxIoOps
    /\ \E d \in StoreDays(cfd.history) : \E c \in {1, 2} : \E saved \in BOOLEAN :
          /\ cfd' = [mode |-> "cfd",
                     history |-> IF saved THEN StoreCfdSnapshot(cfd.history, Snapshot(d, c))
                                 ELSE cfd.history,
                     before |-> cfd.history,
                     stored |-> <<Snapshot(d, c)>>,
                     n |-> cfd.n + 1]
          /\ last' = [Result("storeCfdSnapshot", "", TRUE, EmptyDict, NoFile, NoFile, NoFile)
                        EXCEPT !.fault = IF saved THEN "none" ELSE "save"]
    /\ prev' = fs
    /\ UNCHANGED <<exists, dirs, fs, readme, now, race, wip, codec>>

NextIo ==
    \/ IoCreateTask
    \/ IoUpdateTask
    \/ IoCreateFails
    \/ IoUpdateFails
    \/ IoDeleteFails
    \/ IoStoreSnapshot

SpecIo == InitIo /\ [][NextIo]_vars

\* ------------------------------------------------------------------ codec
\* SpecCodec: a title and a body are written by one of the two serializers
\* and the file is parsed back.
CodecValues ==
    { Title,
      <<"see", ":", SP, "log">>,
      <<"#", "42">>,
      <<"line1", NL, "line2">>,
      <<"it", "'", "s">>,
      <<"say", SP, "\"", "hi", "\"">> }

CodecBodies ==
    { Body,
      <<>>,
      <<"a", NL, DELIM, NL, "b">>,
      <<NL, "text">>,
      <<"text", SP>> }

\* the task_data that carries a title and a body
CodecData(value, body) ==
    [id |-> <<"t1">>, title |-> value, content |-> body, status |-> <<"backlog">>]

\* the frontmatter dictionary the serializer is given, without None
Written(dump, td) ==
    DropNone(IF dump = "create" THEN CreateFrontmatter(td, 1) ELSE UpdateFrontmatter(td, 1))

InitCodec ==
    /\ InitFiles
    /\ race = NoRace
    /\ wip = NoWip
    /\ cfd = NoCfd
    /\ \E dump \in {"create", "update"} : \E value \in CodecValues : \E body \in CodecBodies :
          codec = [mode |-> "codec", dump |-> dump, td |-> CodecData(value, body),
                   written |-> FALSE, text |-> <<>>, task |-> EmptyDict]

\* create_task_file / update_task_file build file_content; parse_task_file
\* reads it
WriteAndParse ==
    /\ codec.mode = "codec"
    /\ ~codec.written
    /\ LET text == IF codec.dump = "create" THEN CreateContent(codec.td, 1)
                   ELSE UpdateContent(codec.td, 1)
       IN codec' = [codec EXCEPT !.written = TRUE, !.text = text,
                                 !.task = ParseTask("t1", text)]
    /\ UNCHANGED <<exists, dirs, fs, readme, now, prev, last, race, wip, cfd>>

NextCodec == WriteAndParse

SpecCodec == InitCodec /\ [][NextCodec]_vars

TypeOK ==
    /\ exists \in BOOLEAN
    /\ now \in 1..9
    /\ \A f \in DOMAIN fs : f.dir \in dirs

\* ------------------------------------------------------------------ claims
\* What the last operation worked on.
InStatusFolder(f) == Len(f.dir) \in {1, 2} /\ InList(<<f.dir[1]>>, StatusFolders)
Updated == last.op = "updateTask" /\ last.ok
Moved == Updated /\ last.new # last.cur
Before == ParseTask(last.id, prev[last.cur])
After == ParseTask(last.id, fs[last.new])

\* C1: after any sequence of createTask, updateTask and deleteTask calls on
\* a fresh project, every task ID has at most one file <id>.md in the tree.
C1_IdentityInvariant == \A id \in Ids : Cardinality(FilesOf(fs, id)) <= 1

\* C3: createTask whose target file exists returns failure and leaves that
\* file and every other file of the project unchanged.
C3_NoOverwriteOnCreate ==
    (last.op = "createTask" /\ last.new \in DOMAIN prev) => (~last.ok /\ fs = prev)

C3_Witness ==
    /\ last.op = "createTask"
    /\ last.new \in DOMAIN prev
    /\ ~last.ok
    /\ Cardinality(DOMAIN fs) >= 2

C5_DestinationCollisionAborts ==
    (/\ last.op = "updateTask"
     /\ last.cur # NoFile
     /\ last.new # last.cur
     /\ last.new \in DOMAIN prev
     /\ ~Has(prev[last.new], last.id))
    => (~last.ok /\ fs = prev)

\* C6: an updateTask with status progress/inprogress (resp. done) on a task
\* whose file records started_at (resp. done_at) keeps the recorded value.
C6_StampOnlyOnce ==
    Updated =>
       /\ (NewStatus(last.td) \in {<<"progress">>, <<"inprogress">>} /\ Truthy(Before.started_at))
            => After.started_at = Before.started_at
       /\ (NewStatus(last.td) = <<"done">> /\ Truthy(Before.done_at))
            => After.done_at = Before.done_at

\* C7: once a file records started_at (resp. done_at), it still records one
\* after every successful updateTask, blockTask or unblockTask.
C7_TimestampsNeverCleared ==
    (last.op \in {"updateTask", "blockTask", "unblockTask"} /\ last.ok) =>
       /\ Truthy(Before.started_at) => Truthy(After.started_at)
       /\ Truthy(Before.done_at) => Truthy(After.done_at)

\* C8: deleteTask finds the task in any status folder (inprogress included),
\* directly or in a developer subfolder, removes that one file and reports
\* success; it reports not-found only when no such file exists; afterwards
\* getTask does not return the task and no other task's file has changed.
C8_DeleteResolvesEverywhere ==
    last.op = "deleteTask" =>
       /\ last.ok <=> (\E f \in FilesOf(prev, last.id) : InStatusFolder(f))
       /\ last.ok =>
            /\ last.found \in DOMAIN prev
            /\ last.found.id = last.id
            /\ fs = Unlink(prev, last.found)
            /\ GetTaskFiles(fs, dirs, last.id) = {}

\* C9: blockTask and unblockTask leave the file at its path and keep title,
\* estimate, spent time, priority, developer, status, created_at,
\* started_at and done_at.
KeptFields ==
    {"title", "timeEstimate", "timeSpent", "priority", "developer", "status",
     "created_at", "started_at", "done_at"}

C9_BlockChangesOnlyBlockedFields ==
    (last.op \in {"blockTask", "unblockTask"} /\ last.ok) =>
       /\ last.new = last.found
       /\ last.found \in DOMAIN fs
       /\ \A k \in KeptFields :
            ParseTask(last.id, fs[last.found])[k] = ParseTask(last.id, prev[last.found])[k]

\* C10: after a successful blockTask with a reason, the task's file has
\* blocked true, blocked_reason equal to the reason, blocked_at set and no
\* unblocked_at, and reading the task gives is_currently_blocked true.
C10_BlockSetsBlockedState ==
    (last.op = "blockTask" /\ last.ok) =>
       /\ last.new \in DOMAIN fs
       /\ After.blocked = PyBool(TRUE)
       /\ After.blocked_reason = last.reason
       /\ Truthy(After.blocked_at)
       /\ <<"unblocked_at">> \notin DOMAIN Metadata(fs[last.new])
       /\ \A f \in GetTaskFiles(fs, dirs, last.id) :
            ParseTask(last.id, fs[f]).is_currently_blocked = PyBool(TRUE)

\* a block of a task that was blocked and unblocked before
C10_Witness ==
    /\ last.op = "blockTask"
    /\ last.ok
    /\ Truthy(ParseTask(last.id, prev[last.found]).unblocked_at)
    /\ Truthy(ParseTask(last.id, prev[last.found]).blocked_at)
    /\ After.is_currently_blocked = PyBool(TRUE)
    /\ After.blocked_reason # ParseTask(last.id, prev[last.found]).blocked_reason

\* C2: two updateTask calls moving the same task (one file <id>.md) to
\* different destinations, run one after the other, both succeed and
\* leave exactly one file; interleaved file operation by file operation,
\* they can both report success and leave two (C2_Witness).
BothReturned == race.mode # "none" /\ \A i \in Procs : race.p[i].pc = "done"

C2_SerialUpdatesLeaveOneFile ==
    (BothReturned /\ race.mode = "serial" /\ race.p[1].copies = 1) =>
        /\ Cardinality(FilesOf(fs, "t1")) = 1
        /\ \A i \in Procs : race.p[i].ok

C2_Witness ==
    /\ BothReturned
    /\ race.mode = "interleaved"
    /\ \A i \in Procs : race.p[i].ok /\ race.p[i].copies = 1
    /\ race.p[1].new # race.p[2].new
    /\ FilesOf(fs, "t1") = {race.p[1].new, race.p[2].new}

\* C11: after a successful unblockTask on a blocked task, the file has
\* blocked false and unblocked_at set, blocked_at and blocked_reason keep
\* the values the block wrote, and reading the task gives
\* is_currently_blocked false.
Found == ParseTask(last.id, prev[last.found])

C11_UnblockKeepsHistory ==
    (/\ last.op = "unblockTask"
     /\ last.ok
     /\ Found.is_currently_blocked = PyBool(TRUE))
    => /\ last.new \in DOMAIN fs
       /\ After.blocked = PyBool(FALSE)
       /\ Truthy(After.unblocked_at)
       /\ After.blocked_at = Found.blocked_at
       /\ After.blocked_reason = Found.blocked_reason
       /\ \A f \in GetTaskFiles(fs, dirs, last.id) :
            ParseTask(last.id, fs[f]).is_currently_blocked = PyBool(FALSE)

\* C12: updateTask for a task ID without a file in the project, or for a
\* project that does not exist, returns failure and creates, modifies and
\* deletes no task file.
C12_UpdateMissingFails ==
    (last.op = "updateTask" /\ FilesOf(prev, last.id) = {}) => (~last.ok /\ fs = prev)

\* the project exists and holds another task
C12_Witness ==
    /\ last.op = "updateTask"
    /\ exists
    /\ FilesOf(prev, last.id) = {}
    /\ FilesOf(prev, "t2") # {}
    /\ ~last.ok
    /\ fs = prev

\* C13: createProject on a new ID makes exactly the status folders backlog,
\* progress, review, testing and done, each with a default-dev subfolder,
\* and README.md holding '# <description>'; on an existing ID it fails and
\* changes nothing.
ClaimedColumns == {"backlog", "progress", "review", "testing", "done"}

C13_ProjectSkeleton ==
    last.op = "createProject" =>
        IF last.ok
        THEN /\ dirs = {<<c>> : c \in ClaimedColumns} \cup
                       {<<c, DefaultDev>> : c \in ClaimedColumns}
             /\ RStrip(readme, {NL}) = <<"#", SP>> \o ProjectDescription
             /\ fs = NoFiles
        ELSE fs = prev

\* C14: check_wip_limit returns, for every file tree and every configured
\* limit that is not null (0 included), count = the number of task files
\* under the status folder, warning = (count >= limit x warningThreshold)
\* and allowed = not (blockOnLimit and count >= limit); a null limit is
\* always allowed.
C14_WipCheckFormula ==
    last.op = "checkWip" =>
        LET cfg == wip.cfg
            limit == Get(cfg.wip_limits, last.id, NoLimit)
            count == CountUnder(fs, last.id)
        IN IF limit = NoLimit THEN wip.result.allowed
           ELSE /\ wip.result.count = count
                /\ wip.result.limit = limit
                /\ wip.result.warning = (10 * count >= limit[1] * cfg.warning_threshold)
                /\ wip.result.allowed = ~(cfg.block_on_limit /\ count >= limit[1])

\* C15: createTask and updateTask never consult the WIP check: with
\* blockOnLimit true and a status that holds its limit of tasks, putting
\* one more task there succeeds and the status then exceeds its limit.
OverLimit(fsys, status) ==
    /\ wip.mode = "wip"
    /\ wip.cfg.block_on_limit
    /\ Get(wip.cfg.wip_limits, status, NoLimit) # NoLimit
    /\ CountUnder(fsys, status) >= Get(wip.cfg.wip_limits, status, NoLimit)[1]

C15_WipAdvisoryOnly ==
    (/\ last.op \in {"createTask", "updateTask"}
     /\ last.new # NoFile
     /\ last.new \notin DOMAIN prev
     /\ last.op = "updateTask" => last.cur.dir[1] # last.new.dir[1]
     /\ OverLimit(prev, last.new.dir[1]))
    => /\ last.ok
       /\ last.new \in DOMAIN fs
       /\ CountUnder(fs, last.new.dir[1]) = CountUnder(prev, last.new.dir[1]) + 1
       /\ CountUnder(fs, last.new.dir[1]) > wip.cfg.wip_limits[last.new.dir[1]][1]

\* a task moved into progress, which held 5 tasks under a blocking limit 5
C15_Witness ==
    /\ last.op = "updateTask"
    /\ last.ok
    /\ last.new.dir[1] = "progress"
    /\ last.cur.dir[1] = "backlog"
    /\ OverLimit(prev, "progress")
    /\ wip.cfg.wip_limits["progress"] = <<5>>
    /\ CountUnder(fs, "progress") = 6

\* C16: the history holds at most one entry per date, and storing a
\* snapshot for a date that has an entry replaces that entry by the new
\* snapshot.
Dates(h) == {h[i].date : i \in 1..Len(h)}

C16_CfdOneEntryPerDate ==
    cfd.mode = "cfd" =>
        /\ \A i, j \in 1..Len(cfd.history) :
              cfd.history[i].date = cfd.history[j].date => i = j
        /\ (cfd.n > 0 /\ cfd.stored[1].date \in Dates(cfd.before)) =>
              /\ \E i \in 1..Len(cfd.history) : cfd.history[i] = cfd.stored[1]
              /\ Len(cfd.history) = Len(cfd.before)

\* a second snapshot of a day, with another count, has replaced the first
C16_Witness ==
    /\ cfd.mode = "cfd"
    /\ cfd.n > 0
    /\ \E i \in 1..Len(cfd.before) :
          /\ cfd.before[i].date = cfd.stored[1].date
          /\ cfd.before[i].backlog # cfd.stored[1].backlog
          /\ cfd.history[i] = cfd.stored[1]
    /\ Len(cfd.history) = Len(cfd.before)

\* C17: after every store the history is sorted ascending by date and has
\* at most 90 entries, and its dates are the 90 most recent of the dates
\* it held and the date stored.
C17_CfdSortedAndBounded ==
    (cfd.mode = "cfd" /\ cfd.n > 0) =>
        LET h == cfd.history
            all == Dates(cfd.before) \cup {cfd.stored[1].date}
        IN /\ \A i \in 1..(Len(h) - 1) : DateLess(h[i].date, h[i + 1].date)
           /\ Len(h) <= 90
           /\ Dates(h) = {d \in all : Cardinality({e \in all : DateLess(d, e)}) < 90}

\* a snapshot older than the 90 retained days was stored and dropped
C17_Witness ==
    /\ cfd.mode = "cfd"
    /\ cfd.n > 0
    /\ Len(cfd.before) = 90
    /\ \A d \in Dates(cfd.before) : DateLess(cfd.stored[1].date, d)
    /\ cfd.history = cfd.before

\* C18: an updateTask that repeats the task_data of the successful
\* updateTask just before it succeeds and leaves the file at the same
\* location with the same content apart from the timestamp fields.
TimestampKeys == {<<"created">>, <<"created_at">>, <<"started_at">>, <<"done_at">>}

NonTimestamp(content) ==
    [body |-> BodyOf(content),
     fields |-> [k \in DOMAIN Metadata(content) \ TimestampKeys |-> Metadata(content)[k]]]

C18_UpdateIdempotent ==
    (last.op = "updateTask" /\ last.rep) =>
        /\ last.ok
        /\ last.new = last.first
        /\ last.new \in DOMAIN fs
        /\ NonTimestamp(fs[last.new]) = NonTimestamp(prev[last.first])

\* the same, for a task that has one file and a status that is a status
\* folder
C18_OneFileStandardStatus ==
    (/\ last.op = "updateTask"
     /\ last.rep
     /\ Cardinality(FilesOf(prev, last.id)) = 1
     /\ InList(NewStatus(last.td), StatusFolders))
    => /\ last.ok
       /\ last.new = last.first
       /\ last.new \in DOMAIN fs
       /\ NonTimestamp(fs[last.new]) = NonTimestamp(prev[last.first])

\* C19: a file written by a serializer parses to the written value for
\* every written key and to the written body, also for values with a
\* colon, a '#', a newline or a quote and bodies with '---' or whitespace
\* at their ends.
C19_FormatRoundTrip ==
    (codec.mode = "codec" /\ codec.written) =>
        LET pairs == Written(codec.dump, codec.td)
            md == Metadata(codec.text)
        IN /\ \A i \in 1..Len(pairs) :
                /\ <<pairs[i][1]>> \in DOMAIN md
                /\ md[<<pairs[i][1]>>] = pairs[i][2]
           /\ codec.task.content = codec.td.content

\* C20: when several files <id>.md exist, updateTask works on the first in
\* the folder order backlog, progress, inprogress, review, testing, done,
\* and within a folder on the direct file before a developer-subfolder
\* file; the other copies are left untouched.
Rank(f) ==
    2 * Least({i \in 1..Len(StatusFolders) : StatusFolders[i] = f.dir[1]}) + Len(f.dir)

FirstInOrder ==
    \A f \in FilesOf(prev, last.id) : InStatusFolder(f) => Rank(last.cur) <= Rank(f)

C20_LocateTieBreak ==
    (/\ last.op = "updateTask"
     /\ last.ok
     /\ Cardinality(FilesOf(prev, last.id)) >= 2)
    => /\ FirstInOrder
       /\ \A f \in FilesOf(prev, last.id) \ {last.cur} : f \in DOMAIN fs /\ fs[f] = prev[f]

\* the order alone
C20_OrderOnly ==
    (/\ last.op = "updateTask"
     /\ last.ok
     /\ Cardinality(FilesOf(prev, last.id)) >= 2)
    => FirstInOrder

\* C21: when the located file was rewritten after the search and its
\* content holds the task ID no more, an updateTask that has to move it
\* returns failure and the file is kept.
C21_ChangedFileIsKept ==
    (/\ Moving
     /\ race.edited
     /\ Call.pc = "done"
     /\ Call.new # Call.cur)
    => /\ ~Call.ok
       /\ Call.cur \in DOMAIN fs

\* C22: an updateTask that changes the path of a task with one file removes
\* the old file before it writes the new one: the new file never exists
\* beside the old one, before the write no file of the task exists, a
\* write that fails or a process that stops there leaves the task's
\* content in no file, and a call that returns success leaves the new file
\* alone.
C22_DeleteBeforeWrite ==
    (/\ Moving
     /\ Call.copies = 1
     /\ Call.new # NoFile
     /\ Call.new # Call.cur)
    => /\ Call.new \in DOMAIN fs => Call.cur \notin DOMAIN fs
       /\ Call.pc = "write" => FilesOf(fs, "t1") = {}
       /\ (race.at = "write" /\ race.fault \in {"write", "crash"})
             => \A f \in FilesOf(fs, "t1") : fs[f] = <<>>
       /\ (Call.pc = "done" /\ Call.ok) => FilesOf(fs, "t1") = {Call.new}

\* the write of a move failed: the call returned failure and the task that
\* had a file before the call has none
C22_Witness ==
    /\ Moving
    /\ Call.pc = "done"
    /\ ~Call.ok
    /\ race.fault = "write"
    /\ Call.copies = 1
    /\ Call.new # Call.cur
    /\ Call.cur \in DOMAIN prev
    /\ FilesOf(fs, "t1") = {}

\* C23: a successful updateTask puts the file under the developer that is
\* task_data.developer when given, else the developer subfolder the task
\* sat in, else task_data.assignee when it starts with dev- or tech-, else
\* directly in the status folder; an update without developer keeps the
\* task in its developer subfolder.
ClaimedDeveloper(td, cur) ==
    IF Truthy(Get(td, "developer", NoneVal)) THEN td["developer"]
    ELSE IF Len(cur.dir) = 2 THEN <<cur.dir[2]>>
    ELSE IF Truthy(Get(td, "assignee", NoneVal)) /\ IsDevHandle(td["assignee"])
         THEN td["assignee"]
    ELSE <<>>

C23_DeveloperResolution ==
    (last.op = "updateTask" /\ last.ok) =>
        /\ last.new.dir = NewStatus(last.td) \o ClaimedDeveloper(last.td, last.cur)
        /\ (~Truthy(Get(last.td, "developer", NoneVal)) /\ Len(last.cur.dir) = 2)
              => (Len(last.new.dir) = 2 /\ last.new.dir[2] = last.cur.dir[2])

\* the same, for a status that is a status folder
C23_StandardStatus ==
    (last.op = "updateTask" /\ last.ok /\ InList(NewStatus(last.td), StatusFolders)) =>
        /\ last.new.dir = NewStatus(last.td) \o ClaimedDeveloper(last.td, last.cur)
        /\ (~Truthy(Get(last.td, "developer", NoneVal)) /\ Len(last.cur.dir) = 2)
              => (Len(last.new.dir) = 2 /\ last.new.dir[2] = last.cur.dir[2])

\* C24: a createTask, updateTask, deleteTask or storeCfdSnapshot whose file
\* write or delete fails returns failure; storeCfdSnapshot returns failure
\* when the history file cannot be saved.
C24_IoFailureReported == last.fault # "none" => ~last.ok

\* the same, for the three task operations
C24_TaskOperationsReport ==
    (last.fault # "none" /\ last.op # "storeCfdSnapshot") => ~last.ok

\* C25: an updateTask that moves a blocked task to another status, with
\* task_data that names none of the blocked fields, leaves the task
\* blocked: its file keeps blocked true, blocked_at and blocked_reason.
BlockedFields == {"blocked", "blocked_at", "blocked_reason", "unblocked_at"}

C25_BlockedSurvivesMove ==
    (/\ Moved
     /\ Before.is_currently_blocked = PyBool(TRUE)
     /\ DOMAIN last.td \cap BlockedFields = {})
    => /\ After.is_currently_blocked = PyBool(TRUE)
       /\ After.blocked_at = Before.blocked_at
       /\ After.blocked_reason = Before.blocked_reason

\* the same, for task_data that is the listed task with a new status
C25_ListedTaskStaysBlocked ==
    (/\ Moved
     /\ Before.is_currently_blocked = PyBool(TRUE)
     /\ BlockedFields \subseteq DOMAIN last.td
     /\ \A k \in BlockedFields : last.td[k] = Before[k])
    => /\ After.is_currently_blocked = PyBool(TRUE)
       /\ After.blocked_at = Before.blocked_at
       /\ After.blocked_reason = Before.blocked_reason

\* C26: a task that listTasks returns and updateTask can locate is found by
\* deleteTask, blockTask and unblockTask, which act on the file that
\* updateTask locates, also when it sits under inprogress.
C26_OperationsResolveAlike ==
    (/\ last.op \in {"deleteTask", "blockTask", "unblockTask"}
     /\ UpdateLocate(prev, dirs, last.id) # {}
     /\ GetTaskFiles(prev, dirs, last.id) # {})
    => /\ last.ok
       /\ last.found \in UpdateLocate(prev, dirs, last.id)

\* the same, for a task with no file under inprogress
C26_OutsideInprogress ==
    (/\ last.op \in {"deleteTask", "blockTask", "unblockTask"}
     /\ UpdateLocate(prev, dirs, last.id) # {}
     /\ GetTaskFiles(prev, dirs, last.id) # {}
     /\ \A f \in FilesOf(prev, last.id) : f.dir[1] # "inprogress")
    => /\ last.ok
       /\ last.found \in UpdateLocate(prev, dirs, last.id)

\* C27: after every successful updateTask, whatever status the caller
\* gives, the task's file is inside one of the six status folders, the
\* list returns it and a following updateTask finds it.
C27_UpdateStaysInWorkflow ==
    Updated =>
        /\ last.new \in DOMAIN fs
        /\ InStatusFolder(last.new)
        /\ GetTaskFiles(fs, dirs, last.id) # {}
        /\ UpdateLocate(fs, dirs, last.id) # {}

\* the same, for a status that is a status folder
C27_StandardStatusStays ==
    (Updated /\ InList(NewStatus(last.td), StatusFolders)) =>
        /\ last.new \in DOMAIN fs
        /\ InStatusFolder(last.new)
        /\ GetTaskFiles(fs, dirs, last.id) # {}
        /\ UpdateLocate(fs, dirs, last.id) # {}

\* C28: on every tree, the count of checkWipLimit for progress and the
\* progress count of takeCfdSnapshot equal the number of listed tasks with
\* column progress, also with tasks under inprogress and with both
\* folders.
C28_CountsAgreeWithList ==
    last.op = "measure" =>
        /\ wip.check.count = wip.listed
        /\ wip.snapshot["progress"] = wip.listed

\* the same, for a tree with no task under inprogress
C28_AgreeOutsideInprogress ==
    (last.op = "measure" /\ CountUnder(fs, "inprogress") = 0) =>
        /\ wip.check.count = wip.listed
        /\ wip.snapshot["progress"] = wip.listed

\* the snapshot alone, for a tree with no folder progress
C28_SnapshotFallsBack ==
    (last.op = "measure" /\ <<"progress">> \notin dirs) =>
        wip.snapshot["progress"] = wip.listed

\* C29: whenever updateTask returns failure (no file found, the
\* destination check, a failing read, unlink or write), every task file
\* of the project exists with the content it had before the call.
C29_FailedUpdateIsAtomic ==
    (/\ Moving
     /\ Call.pc = "done"
     /\ ~Call.ok
     /\ ~race.edited)
    => fs = prev

\* the same, for every failure but a failing write
C29_AtomicBeforeTheWrite ==
    (/\ Moving
     /\ Call.pc = "done"
     /\ ~Call.ok
     /\ ~race.edited
     /\ race.fault # "write")
    => fs = prev

\* C30: of two createTask calls with the same task ID and target folder
\* that run concurrently, step by step, at most one reports success, and
\* the file holds the content written by the call that succeeded.
C30_CreateIsExclusive ==
    (race.mode \in {"serial", "interleaved"} /\ \A i \in Procs : race.p[i].pc = "done") =>
        /\ ~(race.p[1].ok /\ race.p[2].ok)
        /\ \A i \in Procs :
              race.p[i].ok => fs[CreateTarget(race.p[i].td)] = race.p[i].content

\* the same, for two calls one after the other
C30_SerialCreateIsExclusive ==
    (race.mode = "serial" /\ \A i \in Procs : race.p[i].pc = "done") =>
        /\ race.p[1].ok
        /\ ~race.p[2].ok
        /\ fs[CreateTarget(race.p[1].td)] = race.p[1].content

====
